---- MODULE Spec2Model ----
(***************************************************************************)
(* Stock model of the product catalog backend: the nested                  *)
(* color -> size -> stock structure of a Product document                  *)
(* (src/src/models/Product.ts, src/src/models/schemas/colorSchema.ts) and  *)
(* the two stock endpoints that drive it                                   *)
(* (src/src/controllers/productController.ts: updateStock,                 *)
(* updateBulkStock).                                                       *)
(*                                                                         *)
(* `variants` is declared `type: [colorSchema]` and `sizes` is declared    *)
(* `type: [sizeSchema]`: at run time both are Mongoose document arrays.    *)
(* `push(obj)` on a document array stores a subdocument cast from obj; the *)
(* object literal that the caller still holds in its local variable is a   *)
(* different object.  An entry returned by `find` on the array is the      *)
(* stored subdocument itself.  The model keeps the two apart.              *)
(***************************************************************************)
EXTENDS Integers, Sequences, FiniteSets, TLC

\* ------------------------------------------------------------------ bounds
MaxStock == 2
MaxQty == 2
MaxBulkEntries == 2
MaxCalls == 2
MaxRequests == 2

\* --------------------------------------------------------- program constants
MinNumericSize == 1
MaxNumericSize == 50
MaxSizeStringLen == 10

\* ------------------------------------------------------------ JSON values
\* A JSON value of a request body, with the discriminant `typeof` reads.
Num(n) == [kind |-> "number", num |-> n, str |-> ""]
Str(s) == [kind |-> "string", num |-> 0, str |-> s]
Undef == [kind |-> "undefined", num |-> 0, str |-> ""]

\* JavaScript truthiness of a JSON value (`!x` is ~Truthy(x)).
Truthy(x) ==
  CASE x.kind = "number" -> x.num # 0
    [] x.kind = "string" -> x.str # ""
    [] OTHER -> FALSE

\* The strings that occur in the model, with their lengths, their lengths
\* after trim(), and their values under ToNumber (NaN is not a number that
\* equals anything, including itself).
StrLen(s) ==
  CASE s = "" -> 0
    [] s = "8" -> 1
StrTrimLen(s) == StrLen(s)
StrIsNumeric(s) == s \in {"", "8"}
StrToNumber(s) == IF s = "8" THEN 8 ELSE 0

\* a == b of JavaScript (loose equality: a string operand is converted
\* with ToNumber when the other operand is a number).
LooseEq(a, b) ==
  \/ a.kind = b.kind /\ a.num = b.num /\ a.str = b.str
  \/ a.kind = "number" /\ b.kind = "string" /\ StrIsNumeric(b.str) /\ StrToNumber(b.str) = a.num
  \/ a.kind = "string" /\ b.kind = "number" /\ StrIsNumeric(a.str) /\ StrToNumber(a.str) = b.num

\* a === b of JavaScript (strict equality: same type and same value).
StrictEq(a, b) == a.kind = b.kind /\ a.num = b.num /\ a.str = b.str

\* ---------------------------------------------------------------- domains
Colors == {"black", "red"}
SizeValues == {Num(8), Str("8")}
InvalidSize == Num(51)
Quantities == (0 - MaxQty) .. MaxQty
Reqs == {1, 2}
ColorInputs == {Str(c) : c \in Colors} \cup {Str(""), Undef}
SizeInputs == SizeValues \cup {InvalidSize, Undef}
BulkSizeInputs == SizeValues \cup {InvalidSize, Undef}
QuantityInputs == {Num(q) : q \in Quantities} \cup {Str("1")}
ProductIds == {"p1", "missing"}
StoredId == "p1"

\* ----------------------------------------------------------- the document
SizeVariant(size, stock) == [size |-> size, stock |-> stock]
ColorVariant(color, sizes, images) == [color |-> color, sizes |-> sizes, images |-> images]

\* this.variants.find(v => v.color === color): index of the first match,
\* 0 when there is none.
FindColor(variants, color) ==
  IF \E i \in 1..Len(variants) : variants[i].color = color
    THEN CHOOSE i \in 1..Len(variants) :
           /\ variants[i].color = color
           /\ \A j \in 1..(i - 1) : variants[j].color # color
    ELSE 0

\* sizes.find(s => s.size === size): index of the first match, 0 when
\* there is none.
FindSize(sizes, size) ==
  IF \E i \in 1..Len(sizes) : StrictEq(sizes[i].size, size)
    THEN CHOOSE i \in 1..Len(sizes) :
           /\ StrictEq(sizes[i].size, size)
           /\ \A j \in 1..(i - 1) : ~StrictEq(sizes[j].size, size)
    ELSE 0

\* A variant of the inner loop of totalStock: it stops after one size.
SumStockFirst(sizes) == IF sizes = <<>> THEN 0 ELSE Head(sizes).stock

RECURSIVE SumStock(_)
SumStock(sizes) ==
  IF sizes = <<>> THEN 0 ELSE Head(sizes).stock + SumStock(Tail(sizes))

\* A variant of the outer loop of totalStock: only the last color counts.
totalStockLastColor(variants) ==
  IF variants = <<>> THEN 0 ELSE SumStock(variants[Len(variants)].sizes)

\* virtual totalStock
RECURSIVE totalStock(_)
totalStock(variants) ==
  IF variants = <<>> THEN 0
  ELSE SumStock(Head(variants).sizes) + totalStock(Tail(variants))

\* A variant of the test of inStock: `stock >= 0`.
inStockAtLeastZero(variants) ==
  \E i \in 1..Len(variants) : \E j \in 1..Len(variants[i].sizes) :
    variants[i].sizes[j].stock >= 0

\* virtual inStock
inStock(variants) ==
  \E i \in 1..Len(variants) : \E j \in 1..Len(variants[i].sizes) :
    variants[i].sizes[j].stock > 0

\* A variant of getStockBySize: it counts the first color only.
getStockBySizeFirstColor(variants, size) ==
  IF variants = <<>> THEN 0
  ELSE LET sizes == Head(variants).sizes
           j == FindSize(sizes, size)
       IN IF j = 0 THEN 0 ELSE sizes[j].stock

\* method getStockBySize: per color, the first size entry that matches
RECURSIVE getStockBySize(_, _)
getStockBySize(variants, size) ==
  IF variants = <<>> THEN 0
  ELSE LET sizes == Head(variants).sizes
           j == FindSize(sizes, size)
       IN (IF j = 0 THEN 0 ELSE sizes[j].stock) + getStockBySize(Tail(variants), size)

\* The value of a `variants` property: absent (undefined or null), or an
\* array.
AbsentVariants == [present |-> FALSE, items |-> <<>>]
PresentVariants(variants) == [present |-> TRUE, items |-> variants]

\* The getters and the method as called on a product: the guard
\* `!this.variants || this.variants.length === 0`, then the loop.
virtualInStock(p) == IF ~p.present \/ Len(p.items) = 0 THEN FALSE ELSE inStock(p.items)
virtualTotalStock(p) == IF ~p.present \/ Len(p.items) = 0 THEN 0 ELSE totalStock(p.items)
methodGetStockBySize(p, size) ==
  IF ~p.present \/ Len(p.items) = 0 THEN 0 ELSE getStockBySize(p.items, size)

\* hasStock of the controller, inner loop: true at the first size in stock.
RECURSIVE hasStockSizes(_)
hasStockSizes(sizes) ==
  IF sizes = <<>> THEN FALSE
  ELSE IF Head(sizes).stock > 0 THEN TRUE
  ELSE hasStockSizes(Tail(sizes))

\* hasStock of the controller, outer loop.
RECURSIVE hasStockVariants(_)
hasStockVariants(variants) ==
  IF variants = <<>> THEN FALSE
  ELSE IF hasStockSizes(Head(variants).sizes) THEN TRUE
  ELSE hasStockVariants(Tail(variants))

\* hasStock of the controller
hasStock(p) ==
  IF ~p.present \/ Len(p.items) = 0 THEN FALSE ELSE hasStockVariants(p.items)

\* ------------------------------------------------------ schema validation
\* sizeSchema.size validator
ValidSize(v) ==
  CASE v.kind = "number" -> v.num >= MinNumericSize /\ v.num <= MaxNumericSize
    [] v.kind = "string" -> StrTrimLen(v.str) > 0 /\ StrLen(v.str) <= MaxSizeStringLen
    [] OTHER -> FALSE

\* A variant of sizeSchema: no minimum on stock.
ValidSizeVariantSizeOnly(s) == ValidSize(s.size)

\* sizeSchema: size validator, stock min 0
ValidSizeVariant(s) == ValidSize(s.size) /\ s.stock >= 0

\* A variant of the colorSchema.sizes validator: duplicates pass.
ValidSizesNonEmpty(sizes) == Len(sizes) > 0

\* colorSchema.sizes validator: non-empty, no duplicate size (a Set of the
\* sizes keeps 8 and "8" apart)
ValidSizes(sizes) ==
  /\ Len(sizes) > 0
  /\ \A i, j \in 1..Len(sizes) : i # j => sizes[i].size # sizes[j].size

\* colorSchema: color required, sizes validator, every size entry valid
ValidColorVariant(v) ==
  /\ v.color # ""
  /\ ValidSizes(v.sizes)
  /\ \A j \in 1..Len(v.sizes) : ValidSizeVariant(v.sizes[j])

\* productSchema.variants validator and the validation of every entry
ValidVariants(variants) ==
  /\ Len(variants) > 0
  /\ \A i \in 1..Len(variants) : ValidColorVariant(variants[i])

\* Subdocuments cast from the object literals updateStock pushes.
CastColorVariant(color) == ColorVariant(color, <<>>, <<>>)
CastSizeVariant(size) == SizeVariant(size, 0)

\* ------------------------------------------------------------ updateStock
NoError == [name |-> "none", color |-> "", size |-> Undef, available |-> 0, requested |-> 0]
\* `${size}` in a template literal: a number and a string of its digits
\* give the same text.
FormatSize(size) ==
  CASE size.kind = "number" -> Str(IF size.num = 8 THEN "8" ELSE "51")
    [] size.kind = "string" -> Str(size.str)
    [] OTHER -> Str("undefined")

\* A variant of the message: the two numbers change places.
InsufficientStockErrorSwapped(color, size, available, requested) ==
  [name |-> "InsufficientStock", color |-> color, size |-> FormatSize(size),
   available |-> requested, requested |-> available]

\* The values interpolated into the message of the error thrown.
InsufficientStockError(color, size, available, requested) ==
  [name |-> "InsufficientStock", color |-> color, size |-> FormatSize(size),
   available |-> available, requested |-> requested]
ValidationError == [name |-> "ValidationError", color |-> "", size |-> Undef, available |-> 0, requested |-> 0]
\* save() found no document with the version key it loaded
VersionError == [name |-> "VersionError", color |-> "", size |-> Undef, available |-> 0, requested |-> 0]

\* Variants of the check, each a slip the code could have made.
InsufficientNever(newStock) == FALSE
InsufficientOffByOne(newStock) == newStock <= 0

\* the non-negativity check `newStock < 0`
Insufficient(newStock) == newStock < 0

\* productSchema.methods.updateStock on the in-memory document `variants`.
\* Result: the in-memory document afterwards, the error thrown (or none),
\* and whether save() wrote the document.
updateStock(variants, color, size, quantity) ==
  LET ci == FindColor(variants, color)
      hasColor == ci # 0
      \* this.variants.push(colorVariant): the document gets a cast copy
      v1 == IF hasColor THEN variants ELSE Append(variants, CastColorVariant(color))
      \* the sizes array reached through the local colorVariant
      localSizes == IF hasColor THEN v1[ci].sizes ELSE <<>>
      si == FindSize(localSizes, size)
      hasSize == si # 0
      \* colorVariant.sizes.push(sizeVariant): a document array only when
      \* colorVariant is a stored subdocument
      v2 == IF hasColor /\ ~hasSize
              THEN [v1 EXCEPT ![ci].sizes = Append(@, CastSizeVariant(size))]
              ELSE v1
      currentStock == IF hasSize THEN localSizes[si].stock ELSE 0
      newStock == currentStock + quantity
      \* sizeVariant.stock = newStock reaches the document only when
      \* sizeVariant is a stored subdocument
      v3 == IF hasSize THEN [v2 EXCEPT ![ci].sizes[si].stock = newStock] ELSE v2
  IN IF Insufficient(newStock)
       THEN [doc |-> v2, saved |-> FALSE,
             err |-> InsufficientStockError(color, size, currentStock, quantity)]
     ELSE IF ~ValidVariants(v3)
       THEN [doc |-> v3, saved |-> FALSE, err |-> ValidationError]
     ELSE [doc |-> v3, saved |-> TRUE, err |-> NoError]

\* ------------------------------------------------------------------ state
VARIABLES
  stored,   \* variants of the product document in the database
  pc,       \* per request: position in its handler
  body,     \* per request: the body fields the handler still uses
  doc,      \* per request: variants of the document loaded by findById
  updates,  \* per request: `updates` of updateBulkStock
  errors,   \* per request: `errors` of updateBulkStock
  resp,     \* per request: the last response sent
  calls,    \* the updateStock invocations of the running handlers or caller, oldest first
  version,  \* the version key (__v) of the product document in the database
  loaded,   \* per request: the version key of the document it loaded
  served    \* number of requests answered and left behind

vars == <<stored, pc, body, doc, updates, errors, resp, calls, version, loaded, served>>

NoBody == [color |-> "", size |-> Undef, quantity |-> 0]
NoResp == [handler |-> "none", status |-> 0, data |-> <<>>, nUpdates |-> 0, errors |-> <<>>]

\* Products as createProduct stores them (validated by the schemas).
InitProducts ==
  { <<ColorVariant("black", <<SizeVariant(Num(8), 1)>>, <<"b.png">>)>>,
    <<ColorVariant("black", <<SizeVariant(Num(8), 1), SizeVariant(Str("8"), 1)>>, <<>>),
      ColorVariant("red", <<SizeVariant(Num(8), 0)>>, <<"r.png">>)>>,
    <<ColorVariant("red", <<SizeVariant(Str("8"), 2)>>, <<>>),
      ColorVariant("black", <<SizeVariant(Num(8), 1)>>, <<>>)>> }

Init ==
  /\ stored \in InitProducts
  /\ pc = [r \in Reqs |-> "idle"]
  /\ body = [r \in Reqs |-> NoBody]
  /\ doc = [r \in Reqs |-> <<>>]
  /\ updates = [r \in Reqs |-> <<>>]
  /\ errors = [r \in Reqs |-> <<>>]
  /\ resp = [r \in Reqs |-> NoResp]
  /\ calls = <<>>
  /\ version = 0
  /\ loaded = [r \in Reqs |-> 0]
  /\ served = 0

\* Record of one updateStock invocation.
CallRecord(before, color, size, quantity, res, storedBefore, storedAfter) ==
  [color |-> color, size |-> size, quantity |-> quantity,
   before |-> before, after |-> res.doc, err |-> res.err,
   storedBefore |-> storedBefore, storedAfter |-> storedAfter]

Remember(call) == Append(calls, call)

\* Stock values stay within the model's range.
WithinStock(variants) ==
  \A i \in 1..Len(variants) : \A j \in 1..Len(variants[i].sizes) :
    variants[i].sizes[j].stock <= MaxStock

\* ------------------------------------------------- a caller of the method
\* A caller that holds the product object and calls updateStock on it.
InitMethod ==
  /\ stored \in InitProducts
  /\ pc = [r \in Reqs |-> IF r = 1 THEN "caller" ELSE "idle"]
  /\ body = [r \in Reqs |-> NoBody]
  /\ doc = [r \in Reqs |-> IF r = 1 THEN stored ELSE <<>>]
  /\ updates = [r \in Reqs |-> <<>>]
  /\ errors = [r \in Reqs |-> <<>>]
  /\ resp = [r \in Reqs |-> NoResp]
  /\ calls = <<>>
  /\ version = 0
  /\ loaded = [r \in Reqs |-> 0]
  /\ served = 0

\* `await product.updateStock(color, size, quantity)`, resolved or rejected.
Call(r, color, size, quantity) ==
  /\ pc[r] = "caller"
  /\ Len(calls) < MaxCalls
  /\ LET res == updateStock(doc[r], color, size, quantity)
         storedAfter == IF res.saved THEN res.doc ELSE stored
     IN /\ WithinStock(res.doc)
        /\ doc' = [doc EXCEPT ![r] = res.doc]
        /\ stored' = storedAfter
        /\ calls' = Remember(CallRecord(doc[r], color, size, quantity, res, stored, storedAfter))
  /\ UNCHANGED <<pc, body, updates, errors, resp, version, loaded, served>>

NextMethod == \E color \in Colors, size \in SizeValues, quantity \in Quantities :
                Call(1, color, size, quantity)

SpecMethod == InitMethod /\ [][NextMethod]_vars

\* ----------------------------------------------- controller: updateStock
\* From the request to `await Product.findById(id)`.
SingleRequest(r, id, color, size, quantity) ==
  /\ pc[r] = "idle"
  /\ IF ~Truthy(color) \/ color.kind # "string"
       THEN /\ resp' = [resp EXCEPT ![r] = [NoResp EXCEPT !.handler = "updateStock", !.status = 400,
                                                   !.errors = <<"color">>]]
            /\ pc' = [pc EXCEPT ![r] = "done"]
            /\ UNCHANGED <<body, doc>>
     ELSE IF size.kind # "number" /\ size.kind # "string"
       THEN /\ resp' = [resp EXCEPT ![r] = [NoResp EXCEPT !.handler = "updateStock", !.status = 400,
                                                   !.errors = <<"size">>]]
            /\ pc' = [pc EXCEPT ![r] = "done"]
            /\ UNCHANGED <<body, doc>>
     ELSE IF quantity.kind # "number"
       THEN /\ resp' = [resp EXCEPT ![r] = [NoResp EXCEPT !.handler = "updateStock", !.status = 400,
                                                   !.errors = <<"quantity">>]]
            /\ pc' = [pc EXCEPT ![r] = "done"]
            /\ UNCHANGED <<body, doc>>
     ELSE IF id # StoredId
       THEN /\ resp' = [resp EXCEPT ![r] = [NoResp EXCEPT !.handler = "updateStock", !.status = 404]]
            /\ pc' = [pc EXCEPT ![r] = "done"]
            /\ UNCHANGED <<body, doc>>
     ELSE /\ pc' = [pc EXCEPT ![r] = "single"]
          /\ body' = [body EXCEPT ![r] = [color |-> color.str, size |-> size, quantity |-> quantity.num]]
          /\ doc' = [doc EXCEPT ![r] = stored]
          /\ UNCHANGED resp
  /\ loaded' = IF pc'[r] = "single" THEN [loaded EXCEPT ![r] = version] ELSE loaded
  /\ UNCHANGED <<stored, updates, errors, calls, version, served>>

\* A variant of the schema options: `optimisticConcurrency: true`.
optimisticConcurrencyOn == TRUE

\* The schema sets no optimisticConcurrency option: a save that only sets
\* fields of existing array elements leaves the version key as it is.
optimisticConcurrency == FALSE

\* A variant of the write: the stock is sent as an increment that the
\* database applies to the value it holds.
SaveDeltaIncrement(before, color, size, quantity) ==
  LET ci == FindColor(before, color)
      si == IF ci = 0 THEN 0 ELSE FindSize(before[ci].sizes, size)
  IN IF ci = 0 \/ (si # 0 /\ quantity = 0)
       THEN [op |-> "none", ci |-> 0, si |-> 0, stock |-> 0]
     ELSE IF si = 0
       THEN [op |-> "push", ci |-> ci, si |-> 0, stock |-> 0]
     ELSE [op |-> "set", ci |-> ci, si |-> si, stock |-> stored[ci].sizes[si].stock + quantity]

\* What save() sends after updateStock has run once on a freshly loaded
\* document: nothing when no path was modified (the color was missing and
\* validation fails first, or the stock was assigned the value it had),
\* a $push of the cast size entry, or a $set of the one stock field.
SaveDelta(before, color, size, quantity) ==
  LET ci == FindColor(before, color)
      si == IF ci = 0 THEN 0 ELSE FindSize(before[ci].sizes, size)
  IN IF ci = 0 \/ (si # 0 /\ quantity = 0)
       THEN [op |-> "none", ci |-> 0, si |-> 0, stock |-> 0]
     ELSE IF si = 0
       THEN [op |-> "push", ci |-> ci, si |-> 0, stock |-> 0]
     ELSE [op |-> "set", ci |-> ci, si |-> si, stock |-> before[ci].sizes[si].stock + quantity]

\* `await product.updateStock(color, size, quantity)` and the response.
\* The write names the version key the document was loaded with; a $push
\* increments the key.
SingleUpdate(r) ==
  /\ pc[r] = "single"
  /\ LET res == updateStock(doc[r], body[r].color, body[r].size, body[r].quantity)
         delta == SaveDelta(doc[r], body[r].color, body[r].size, body[r].quantity)
         writes == res.saved /\ delta.op # "none"
         stale == writes /\ loaded[r] # version
         out == IF stale THEN [res EXCEPT !.err = VersionError, !.saved = FALSE] ELSE res
         storedAfter ==
           IF ~writes \/ stale THEN stored
           ELSE IF delta.op = "set"
             THEN [stored EXCEPT ![delta.ci].sizes[delta.si].stock = delta.stock]
           ELSE [stored EXCEPT ![delta.ci].sizes = Append(@, CastSizeVariant(body[r].size))]
         bumps == writes /\ ~stale /\ (delta.op = "push" \/ optimisticConcurrency)
     IN /\ WithinStock(res.doc)
        /\ doc' = [doc EXCEPT ![r] = res.doc]
        /\ stored' = storedAfter
        /\ version' = IF bumps THEN version + 1 ELSE version
        /\ calls' = Remember(CallRecord(doc[r], body[r].color, body[r].size, body[r].quantity,
                                        out, stored, storedAfter))
        /\ resp' = [resp EXCEPT ![r] =
             IF out.err.name = "none"
               THEN [NoResp EXCEPT !.handler = "updateStock", !.status = 200, !.data = res.doc]
             ELSE IF out.err.name = "InsufficientStock"
               THEN [NoResp EXCEPT !.handler = "updateStock", !.status = 400, !.errors = <<out.err>>]
             ELSE [NoResp EXCEPT !.handler = "updateStock", !.status = 500, !.errors = <<out.err>>]]
  /\ pc' = [pc EXCEPT ![r] = "done"]
  /\ UNCHANGED <<body, updates, errors, loaded, served>>

\* ------------------------------------------- controller: updateBulkStock
UpdateEntry(color, size, quantity) == [color |-> color, size |-> size, quantity |-> quantity]
\* An entry of `errors`: which check produced it, the color and size its
\* message names (for a malformed size: the size received), the error of
\* updateStock it quotes, and the type of the quantity received with it.
ErrorEntry(kind, color, size, quantityKind, err) ==
  [kind |-> kind, color |-> color, size |-> size, quantityKind |-> quantityKind, err |-> err]

\* From the request to `await Product.findById(id)`.
BulkRequest(r, id, variantsIsArray) ==
  /\ pc[r] = "idle"
  /\ IF ~variantsIsArray
       THEN /\ resp' = [resp EXCEPT ![r] = [NoResp EXCEPT !.handler = "updateBulkStock", !.status = 400,
                                                   !.errors = <<"variants">>]]
            /\ pc' = [pc EXCEPT ![r] = "done"]
            /\ UNCHANGED doc
     ELSE IF id # StoredId
       THEN /\ resp' = [resp EXCEPT ![r] = [NoResp EXCEPT !.handler = "updateBulkStock", !.status = 404]]
            /\ pc' = [pc EXCEPT ![r] = "done"]
            /\ UNCHANGED doc
     ELSE /\ pc' = [pc EXCEPT ![r] = "bulk"]
          /\ doc' = [doc EXCEPT ![r] = stored]
          /\ UNCHANGED resp
  /\ loaded' = IF pc'[r] = "bulk" THEN [loaded EXCEPT ![r] = version] ELSE loaded
  /\ UNCHANGED <<stored, body, updates, errors, calls, version, served>>

\* One iteration of `for (const variant of variants)` up to its inner loop.
BulkGroup(r, color, sizesIsArray) ==
  /\ pc[r] = "bulk"
  /\ Len(updates[r]) + Len(errors[r]) < MaxBulkEntries
  /\ IF ~Truthy(color) \/ color.kind # "string"
       THEN /\ errors' = [errors EXCEPT ![r] = Append(@, ErrorEntry("color", "", Undef, "undefined", NoError))]
            /\ UNCHANGED <<pc, body>>
     ELSE IF ~sizesIsArray
       THEN /\ errors' = [errors EXCEPT ![r] = Append(@, ErrorEntry("sizes", color.str, Undef, "undefined", NoError))]
            /\ UNCHANGED <<pc, body>>
     ELSE /\ pc' = [pc EXCEPT ![r] = "group"]
          /\ body' = [body EXCEPT ![r] = [NoBody EXCEPT !.color = color.str]]
          /\ UNCHANGED errors
  /\ UNCHANGED <<stored, doc, updates, resp, calls, version, loaded, served>>

\* A variant of the size check: every size is passed on to updateStock.
BulkSizeUnchecked(size) == FALSE

\* The size check of the inner loop: `typeof sizeUpdate.size !== 'number'`.
BulkSizeMalformed(size) == size.kind # "number"

\* One iteration of `for (const sizeUpdate of variant.sizes)`.
BulkSize(r, size, quantity) ==
  /\ pc[r] = "group"
  /\ Len(updates[r]) + Len(errors[r]) < MaxBulkEntries
  /\ IF BulkSizeMalformed(size)
       THEN /\ errors' = [errors EXCEPT ![r] = Append(@, ErrorEntry("size", body[r].color, size, quantity.kind, NoError))]
            /\ UNCHANGED <<stored, doc, updates, calls>>
     ELSE IF quantity.kind # "number"
       THEN /\ errors' = [errors EXCEPT ![r] = Append(@, ErrorEntry("quantity", body[r].color, size, quantity.kind, NoError))]
            /\ UNCHANGED <<stored, doc, updates, calls>>
     ELSE LET res == updateStock(doc[r], body[r].color, size, quantity.num)
              storedAfter == IF res.saved THEN res.doc ELSE stored
          IN /\ WithinStock(res.doc)
             /\ doc' = [doc EXCEPT ![r] = res.doc]
             /\ stored' = storedAfter
             /\ calls' = Remember(CallRecord(doc[r], body[r].color, size, quantity.num,
                                             res, stored, storedAfter))
             /\ IF res.err.name = "none"
                  THEN /\ updates' = [updates EXCEPT ![r] =
                                        Append(@, UpdateEntry(body[r].color, size, quantity.num))]
                       /\ UNCHANGED errors
                  ELSE /\ errors' = [errors EXCEPT ![r] =
                                       Append(@, ErrorEntry("update", body[r].color, size, quantity.kind, res.err))]
                       /\ UNCHANGED updates
  /\ UNCHANGED <<pc, body, resp, version, loaded, served>>

\* The inner loop ends: back to the outer loop.
BulkGroupEnd(r) ==
  /\ pc[r] = "group"
  /\ pc' = [pc EXCEPT ![r] = "bulk"]
  /\ body' = [body EXCEPT ![r] = NoBody]
  /\ UNCHANGED <<stored, doc, updates, errors, resp, calls, version, loaded, served>>

\* A variant of the result policy: any failure rejects the batch.
BulkRejectedOnAnyError(ups, errs) == Len(errs) > 0

\* `errors.length > 0 && updates.length === 0`
BulkRejected(ups, errs) == Len(errs) > 0 /\ Len(ups) = 0

\* The outer loop ends: the response.
BulkRespond(r) ==
  /\ pc[r] = "bulk"
  /\ resp' = [resp EXCEPT ![r] =
       IF BulkRejected(updates[r], errors[r])
         THEN [NoResp EXCEPT !.handler = "updateBulkStock", !.status = 400, !.errors = errors[r]]
         ELSE [NoResp EXCEPT !.handler = "updateBulkStock", !.status = 200, !.data = doc[r],
                             !.nUpdates = Len(updates[r]), !.errors = errors[r]]]
  /\ pc' = [pc EXCEPT ![r] = "done"]
  /\ UNCHANGED <<stored, body, doc, updates, errors, calls, version, loaded, served>>

\* ---------------------------------------------------------- specification
\* One request, of either kind, on a stored product, from its arrival to
\* its response.
Next ==
  \/ \E id \in ProductIds, color \in ColorInputs, size \in SizeInputs, quantity \in QuantityInputs :
       SingleRequest(1, id, color, size, quantity)
  \/ SingleUpdate(1)
  \/ \E id \in ProductIds, variantsIsArray \in BOOLEAN : BulkRequest(1, id, variantsIsArray)
  \/ \E color \in ColorInputs, sizesIsArray \in BOOLEAN : BulkGroup(1, color, sizesIsArray)
  \/ \E size \in BulkSizeInputs, quantity \in QuantityInputs : BulkSize(1, size, quantity)
  \/ BulkGroupEnd(1)
  \/ BulkRespond(1)

Spec == Init /\ [][Next]_vars

TypeOK ==
  /\ \A r \in Reqs : pc[r] \in {"idle", "caller", "single", "bulk", "group", "done"}
  /\ Len(calls) <= MaxCalls + MaxBulkEntries

\* ------------------------------- createProduct, updateProduct, sequences
\* `trim: true` of colorSchema.color, on the colors that occur in bodies.
TrimColor(c) ==
  CASE c = " red" -> "red"
    [] c = " " -> ""
    [] OTHER -> c

\* The document array that Mongoose casts a `variants` value of a body to.
CastVariants(raw) ==
  [i \in 1..Len(raw) |-> ColorVariant(TrimColor(raw[i].color), raw[i].sizes, raw[i].images)]

\* `variants` values of the bodies sent to createProduct and updateProduct.
ProductBodies ==
  { <<>>,
    <<ColorVariant("black", <<>>, <<>>)>>,
    <<ColorVariant(" ", <<SizeVariant(Num(8), 1)>>, <<>>)>>,
    <<ColorVariant("black", <<SizeVariant(Num(8), 1), SizeVariant(Num(8), 2)>>, <<>>)>>,
    <<ColorVariant("black", <<SizeVariant(Num(8), 0 - 1)>>, <<>>)>>,
    <<ColorVariant("black", <<SizeVariant(Num(8), 1)>>, <<>>),
      ColorVariant("red", <<SizeVariant(Str("8"), 0 - 1)>>, <<>>)>>,
    <<ColorVariant("black", <<SizeVariant(Num(8), 1)>>, <<>>),
      ColorVariant("red", <<SizeVariant(InvalidSize, 1)>>, <<>>)>>,
    <<ColorVariant("black", <<SizeVariant(Num(8), 1), SizeVariant(Str("8"), 1)>>, <<"b.png">>)>>,
    <<ColorVariant("black", <<SizeVariant(Num(8), 2)>>, <<>>),
      ColorVariant("red", <<SizeVariant(Num(8), 0)>>, <<>>)>>,
    <<ColorVariant("black", <<SizeVariant(Num(8), 1)>>, <<>>),
      ColorVariant("black", <<SizeVariant(Num(8), 0)>>, <<>>)>>,
    <<ColorVariant("red", <<SizeVariant(Num(8), 0)>>, <<>>),
      ColorVariant(" red", <<SizeVariant(Num(8), 1)>>, <<>>)>> }

\* No product stored yet.
InitCatalog ==
  /\ stored = <<>>
  /\ pc = [r \in Reqs |-> "idle"]
  /\ body = [r \in Reqs |-> NoBody]
  /\ doc = [r \in Reqs |-> <<>>]
  /\ updates = [r \in Reqs |-> <<>>]
  /\ errors = [r \in Reqs |-> <<>>]
  /\ resp = [r \in Reqs |-> NoResp]
  /\ calls = <<>>
  /\ version = 0
  /\ loaded = [r \in Reqs |-> 0]
  /\ served = 0

\* createProduct: Product.create builds the document from the body,
\* validates it and inserts it; a validation error is answered 400.
createProduct(r, raw) ==
  /\ pc[r] = "idle"
  /\ stored = <<>>
  /\ LET product == CastVariants(raw)
     IN /\ doc' = [doc EXCEPT ![r] = product]
        /\ IF ValidVariants(product)
             THEN /\ stored' = product
                  /\ resp' = [resp EXCEPT ![r] = [NoResp EXCEPT !.handler = "createProduct",
                                                    !.status = 201, !.data = product]]
             ELSE /\ stored' = stored
                  /\ resp' = [resp EXCEPT ![r] = [NoResp EXCEPT !.handler = "createProduct",
                                                    !.status = 400, !.errors = <<ValidationError>>]]
  /\ pc' = [pc EXCEPT ![r] = "done"]
  /\ UNCHANGED <<body, updates, errors, calls, version, loaded, served>>

\* updateProduct with a body that carries `variants`:
\* Product.findByIdAndUpdate(id, req.body, { new: true, runValidators: true })
\* validates the cast update, then replaces the stored variants.
updateProduct(r, id, raw) ==
  /\ pc[r] = "idle"
  /\ stored # <<>>
  /\ LET update == CastVariants(raw)
     IN /\ doc' = [doc EXCEPT ![r] = update]
        /\ IF ~ValidVariants(update)
             THEN /\ stored' = stored
                  /\ resp' = [resp EXCEPT ![r] = [NoResp EXCEPT !.handler = "updateProduct",
                                                    !.status = 400, !.errors = <<ValidationError>>]]
           ELSE IF id # StoredId
             THEN /\ stored' = stored
                  /\ resp' = [resp EXCEPT ![r] = [NoResp EXCEPT !.handler = "updateProduct",
                                                    !.status = 404]]
           ELSE /\ stored' = update
                /\ resp' = [resp EXCEPT ![r] = [NoResp EXCEPT !.handler = "updateProduct",
                                                  !.status = 200, !.data = update]]
  /\ pc' = [pc EXCEPT ![r] = "done"]
  /\ UNCHANGED <<body, updates, errors, calls, version, loaded, served>>

\* The request has been answered; the next one arrives.
NextRequest(r) ==
  /\ pc[r] = "done"
  /\ served < MaxRequests
  /\ pc' = [pc EXCEPT ![r] = "idle"]
  /\ body' = [body EXCEPT ![r] = NoBody]
  /\ doc' = [doc EXCEPT ![r] = <<>>]
  /\ updates' = [updates EXCEPT ![r] = <<>>]
  /\ errors' = [errors EXCEPT ![r] = <<>>]
  /\ resp' = [resp EXCEPT ![r] = NoResp]
  /\ loaded' = [loaded EXCEPT ![r] = 0]
  /\ calls' = <<>>
  /\ served' = served + 1
  /\ UNCHANGED <<stored, version>>

\* The quantities of the bulk bodies of a sequence: one unit in or out.
UnitQuantities == {0 - 1, 1}

\* Requests on one product, one at a time: its creation, then full updates
\* and single and bulk stock updates with well-typed bodies.
NextCatalog ==
  \/ \E raw \in ProductBodies : createProduct(1, raw)
  \/ \E id \in ProductIds, raw \in ProductBodies : updateProduct(1, id, raw)
  \/ /\ stored # <<>>
     /\ \E color \in Colors, size \in SizeValues, quantity \in Quantities :
          SingleRequest(1, StoredId, Str(color), size, Num(quantity))
  \/ SingleUpdate(1)
  \/ stored # <<>> /\ BulkRequest(1, StoredId, TRUE)
  \/ \E color \in Colors : BulkGroup(1, Str(color), TRUE)
  \/ \E quantity \in UnitQuantities : BulkSize(1, Num(8), Num(quantity))
  \/ BulkGroupEnd(1)
  \/ BulkRespond(1)
  \/ NextRequest(1)

SpecCatalog == InitCatalog /\ [][NextCatalog]_vars

\* ------------------------------------------- concurrent single updates
\* Two single-update requests on the stored product; the steps of one
\* (the load, then updateStock with its save) interleave with the other's.
NextRace ==
  \E r \in Reqs :
    \/ \E id \in ProductIds, color \in ColorInputs, size \in SizeInputs, quantity \in QuantityInputs :
         SingleRequest(r, id, color, size, quantity)
    \/ SingleUpdate(r)

SpecRace == Init /\ [][NextRace]_vars

\* ------------------------------------------------------ reading a product
\* The size lists a color of a product object can hold: none (a color that
\* updateStock has just pushed), one size, or two different sizes.
SizeLists ==
  {<<>>}
    \cup {<<SizeVariant(s, a)>> : s \in SizeValues, a \in 0..MaxStock}
    \cup {l \in {<<SizeVariant(s, a), SizeVariant(t, b)>> :
                   s \in SizeValues, t \in SizeValues, a \in 0..MaxStock, b \in 0..MaxStock} :
             l[1].size # l[2].size}
ColorEntries == {ColorVariant(c, sizes, <<>>) : c \in Colors, sizes \in SizeLists}
\* Product objects with no color (a new document), one color or two.
ProductObjects ==
  {<<>>} \cup {<<v>> : v \in ColorEntries} \cup {<<v, w>> : v \in ColorEntries, w \in ColorEntries}

InitRead ==
  /\ stored \in ProductObjects
  /\ pc = [r \in Reqs |-> "idle"]
  /\ body = [r \in Reqs |-> NoBody]
  /\ doc = [r \in Reqs |-> <<>>]
  /\ updates = [r \in Reqs |-> <<>>]
  /\ errors = [r \in Reqs |-> <<>>]
  /\ resp = [r \in Reqs |-> NoResp]
  /\ calls = <<>>
  /\ version = 0
  /\ loaded = [r \in Reqs |-> 0]
  /\ served = 0

\* What a reader of the product object gets: its getters, its method for
\* one size, and hasStock of the list filter.
ReadRecord(p, size) ==
  [variants |-> p, size |-> size,
   inStock |-> virtualInStock(p), totalStock |-> virtualTotalStock(p),
   stockBySize |-> methodGetStockBySize(p, size), hasStock |-> hasStock(p)]

\* A read of the product object, with its `variants` property or without.
ReadProduct(r, present, size) ==
  /\ pc[r] = "idle"
  /\ LET p == IF present THEN PresentVariants(stored) ELSE AbsentVariants
     IN resp' = [resp EXCEPT ![r] = [NoResp EXCEPT !.handler = "read", !.status = 200,
                                                 !.data = <<ReadRecord(p, size)>>]]
  /\ pc' = [pc EXCEPT ![r] = "done"]
  /\ UNCHANGED <<stored, body, doc, updates, errors, calls, version, loaded, served>>

NextRead == \E present \in BOOLEAN, size \in SizeValues : ReadProduct(1, present, size)

SpecRead == InitRead /\ [][NextRead]_vars

\* ================================================================ claims
\* Helpers of the claims (independent of the code's own lookups).
Slots(variants) ==
  UNION {{<<i, j>> : j \in 1..Len(variants[i].sizes)} : i \in 1..Len(variants)}
HasSlot(variants, color, size) ==
  \E p \in Slots(variants) :
    variants[p[1]].color = color /\ variants[p[1]].sizes[p[2]].size = size
\* Stock of the slot (color, size), 0 when the product has no such slot.
SlotStock(variants, color, size) ==
  IF HasSlot(variants, color, size)
    THEN LET p == CHOOSE q \in Slots(variants) :
                    variants[q[1]].color = color /\ variants[q[1]].sizes[q[2]].size = size
         IN variants[p[1]].sizes[p[2]].stock
    ELSE 0
StockNonNegative(variants) ==
  \A p \in Slots(variants) : variants[p[1]].sizes[p[2]].stock >= 0
Succeeded(call) == call.err.name = "none"
FailedInsufficient(call) == call.err.name = "InsufficientStock"
CallIdx == 1..Len(calls)
\* The most recent call (the earlier ones were the most recent in earlier states).
LastIdx == IF calls = <<>> THEN {} ELSE {Len(calls)}

\* C1: after any sequence of updateStock calls on a product, succeeding or
\* failing, no SizeVariant of the product object or of the stored product
\* has a negative stock.
C1_StockNeverNegative ==
  /\ StockNonNegative(stored)
  /\ \A r \in Reqs : StockNonNegative(doc[r])
  /\ \A i \in LastIdx : StockNonNegative(calls[i].after) /\ StockNonNegative(calls[i].storedAfter)

\* C1 witness: a consumption that succeeded and one that was refused.
C1_Witness ==
  /\ \E i \in CallIdx : Succeeded(calls[i]) /\ calls[i].quantity < 0
  /\ \E i \in CallIdx : FailedInsufficient(calls[i])

\* C2: whenever currentStock + quantity < 0, updateStock fails with an
\* insufficient-stock error and leaves the product object unmodified,
\* whether or not the color or the size existed.
C2_FailureLeavesProductUnmodified ==
  \A i \in CallIdx :
    SlotStock(calls[i].before, calls[i].color, calls[i].size) + calls[i].quantity < 0
      => FailedInsufficient(calls[i]) /\ calls[i].after = calls[i].before

\* C3: on an existing slot of a valid size with stock n, quantity -n succeeds and leaves
\* the stock at exactly 0, and quantity -(n+1) fails with an
\* insufficient-stock error and leaves the stock at n.
C3_Boundary ==
  \A i \in CallIdx :
    LET c == calls[i]
        n == SlotStock(c.before, c.color, c.size)
    IN (HasSlot(c.before, c.color, c.size) /\ ValidSize(c.size)) =>
         /\ c.quantity = 0 - n =>
              Succeeded(c) /\ SlotStock(c.after, c.color, c.size) = 0
                           /\ SlotStock(c.storedAfter, c.color, c.size) = 0
         /\ c.quantity = 0 - (n + 1) =>
              FailedInsufficient(c) /\ SlotStock(c.after, c.color, c.size) = n

\* C4: a successful updateStock(color, size, q) with q >= 0 appends exactly
\* one ColorVariant holding the one SizeVariant (size, q) when the color is
\* missing, appends exactly one SizeVariant (size, q) to the color when only
\* the size is missing, and the persisted product then holds the slot with
\* stock q, inStock being true when q > 0.
C4_FindOrCreate ==
  \A i \in CallIdx :
    LET c == calls[i]
        ci == FindColor(c.before, c.color)
    IN (Succeeded(c) /\ c.quantity >= 0 /\ ~HasSlot(c.before, c.color, c.size)) =>
         /\ ci = 0 =>
              /\ Len(c.after) = Len(c.before) + 1
              /\ SubSeq(c.after, 1, Len(c.before)) = c.before
              /\ c.after[Len(c.after)].color = c.color
              /\ c.after[Len(c.after)].sizes = <<SizeVariant(c.size, c.quantity)>>
         /\ ci # 0 =>
              /\ Len(c.after) = Len(c.before)
              /\ c.after[ci].sizes = Append(c.before[ci].sizes, SizeVariant(c.size, c.quantity))
         /\ HasSlot(c.storedAfter, c.color, c.size)
         /\ SlotStock(c.storedAfter, c.color, c.size) = c.quantity
         /\ c.quantity > 0 => inStock(c.storedAfter)

\* C5: when updateStock(p, c, s, q1) and then updateStock(p, c, s, q2) both
\* succeed, totalStock afterwards is totalStock before plus q1 + q2.
C5_Additivity ==
  \A i \in CallIdx :
    (i + 1 \in CallIdx /\ Succeeded(calls[i]) /\ Succeeded(calls[i + 1])
       /\ calls[i + 1].before = calls[i].after
       /\ calls[i + 1].color = calls[i].color /\ calls[i + 1].size = calls[i].size) =>
      totalStock(calls[i + 1].after) =
        totalStock(calls[i].before) + calls[i].quantity + calls[i + 1].quantity

\* C6: updateStock with quantity 0 never fails and leaves totalStock
\* unchanged, on an existing slot as on a slot the call creates.
C6_NoOpDelta ==
  \A i \in CallIdx :
    calls[i].quantity = 0 =>
      Succeeded(calls[i]) /\ totalStock(calls[i].after) = totalStock(calls[i].before)

\* Two sizes that differ in type and that loose comparison would identify.
Twin(a, b) == a.kind # b.kind /\ LooseEq(a, b)

RECURSIVE SumStockBySize(_, _)
\* Sum over the colors of the stock of the slot whose size is `size`.
SumStockBySize(variants, size) ==
  IF variants = <<>> THEN 0
  ELSE SlotStock(<<Head(variants)>>, Head(variants).color, size)
         + SumStockBySize(Tail(variants), size)

\* C7: within one color of a product the number 8 and the string "8" are
\* independent entries: an updateStock addressed to one never changes the
\* other's entry and decides on the addressed slot's stock alone, and
\* getStockBySize of one counts nothing of the other.
C7_TypeDistinction ==
  /\ \A i \in LastIdx :
       LET c == calls[i]
       IN /\ \A p \in Slots(c.before) :
               (c.before[p[1]].color = c.color /\ Twin(c.before[p[1]].sizes[p[2]].size, c.size)) =>
                 c.after[p[1]].sizes[p[2]] = c.before[p[1]].sizes[p[2]]
          /\ FailedInsufficient(c) <=> SlotStock(c.before, c.color, c.size) + c.quantity < 0
          /\ FailedInsufficient(c) => c.err.available = SlotStock(c.before, c.color, c.size)
  /\ \A r \in Reqs : \A size \in SizeValues :
       getStockBySize(doc[r], size) = SumStockBySize(doc[r], size)

\* C7 witness: a successful change of one of two twin slots of a color whose
\* stocks then differ.
C7_Witness ==
  \E i \in CallIdx :
    LET c == calls[i]
    IN /\ Succeeded(c) /\ c.quantity # 0
       /\ HasSlot(c.before, c.color, c.size)
       /\ \E p \in Slots(c.after) :
            /\ c.after[p[1]].color = c.color
            /\ Twin(c.after[p[1]].sizes[p[2]].size, c.size)
            /\ c.after[p[1]].sizes[p[2]].stock > 0
            /\ c.after[p[1]].sizes[p[2]].stock # SlotStock(c.after, c.color, c.size)

\* The request whose handler is updateBulkStock, and its end.
InBulk(r) == pc[r] \in {"bulk", "group"} \/ (pc[r] = "done" /\ resp[r].handler = "updateBulkStock")
BulkDone(r) == pc[r] = "done" /\ resp[r].handler = "updateBulkStock"
WouldGoNegative(call) == SlotStock(call.before, call.color, call.size) + call.quantity < 0

\* C8: in one updateBulkStock call a failing triple neither aborts the
\* remaining triples nor rolls back earlier successes; with one valid triple
\* and one triple that would go negative the result has one success entry
\* and one failure entry and the stored product retains the valid triple's
\* stock change.
C8_BulkPartialSuccess ==
  \A r \in Reqs :
    /\ InBulk(r) =>
         \A i \in CallIdx : ~Succeeded(calls[i]) => calls[i].storedAfter = calls[i].storedBefore
    /\ (BulkDone(r) /\ Len(calls) = 2 /\ Len(updates[r]) + Len(errors[r]) = 2) =>
         \A i, j \in CallIdx :
           (i # j /\ ValidSize(calls[i].size)
              /\ ~WouldGoNegative(calls[i]) /\ WouldGoNegative(calls[j])) =>
             /\ Len(updates[r]) = 1 /\ Len(errors[r]) = 1
             /\ resp[r].status = 200
             /\ SlotStock(stored, calls[i].color, calls[i].size)
                  = SlotStock(calls[i].storedBefore, calls[i].color, calls[i].size) + calls[i].quantity

\* C9: updateBulkStock answers 400 with the failure list when there are
\* failures and no success, answers 200 with the failure list attached
\* whenever at least one triple succeeded, and a failing triple never turns
\* the answer into a server error.
C9_BulkResultPolicy ==
  \A r \in Reqs :
    BulkDone(r) =>
      /\ (Len(updates[r]) = 0 /\ Len(errors[r]) > 0) =>
           resp[r].status = 400 /\ resp[r].errors = errors[r]
      /\ Len(updates[r]) > 0 =>
           /\ resp[r].status = 200
           /\ resp[r].errors = errors[r]
           /\ resp[r].nUpdates = Len(updates[r])
      /\ resp[r].status \in {200, 400, 404}

\* C9 witness: a batch answered 200 that holds a success and a failed update.
C9_Witness ==
  \E r \in Reqs :
    /\ BulkDone(r) /\ resp[r].status = 200
    /\ Len(updates[r]) > 0
    /\ \E k \in 1..Len(errors[r]) : errors[r][k].kind = "update"

\* C10: the bulk update takes a well-formed triple whose size is a string as
\* the single update does: it is never recorded as a malformed size.
C10_BulkAcceptsStringSize ==
  \A r \in Reqs : \A k \in 1..Len(errors[r]) :
    (errors[r][k].kind = "size" /\ errors[r][k].quantityKind = "number") =>
      errors[r][k].size.kind \notin {"number", "string"}

\* The entries of `errors` that the handler's own checks of a variant or of
\* a size update produce, as opposed to a rejection of updateStock.
MalformedKinds == {"color", "sizes", "size", "quantity"}
UpdateErrors(r) == {k \in 1..Len(errors[r]) : errors[r][k].kind = "update"}
MalformedAdded(r) ==
  /\ Len(errors'[r]) = Len(errors[r]) + 1
  /\ errors'[r][Len(errors'[r])].kind \in MalformedKinds

Reads == {resp[r].data[1] : r \in {q \in Reqs : pc[q] = "done" /\ resp[q].handler = "read"}}

RECURSIVE SumOfSlots(_, _)
\* Sum of the stock of the slots S of variants.
SumOfSlots(variants, S) ==
  IF S = {} THEN 0
  ELSE LET p == CHOOSE q \in S : TRUE
       IN variants[p[1]].sizes[p[2]].stock + SumOfSlots(variants, S \ {p})
SlotsOfSize(variants, size) ==
  {p \in Slots(variants) : variants[p[1]].sizes[p[2]].size = size}

\* C12: totalStock of a product is the sum of stock over every SizeVariant
\* of every ColorVariant, and 0 when variants is empty or absent.
C12_TotalStock ==
  \A d \in Reads :
    /\ d.totalStock = SumOfSlots(d.variants.items, Slots(d.variants.items))
    /\ (~d.variants.present \/ d.variants.items = <<>>) => d.totalStock = 0

\* C12 witness: a read of a product of two colors, one of them with two
\* sizes, every size in stock.
C12_Witness ==
  \E d \in Reads :
    /\ d.variants.present /\ Len(d.variants.items) = 2
    /\ Len(d.variants.items[1].sizes) = 2 /\ Len(d.variants.items[2].sizes) = 1
    /\ \A p \in Slots(d.variants.items) : d.variants.items[p[1]].sizes[p[2]].stock > 0
    /\ d.totalStock >= 3

\* C13: getStockBySize(size) is the sum of stock over every SizeVariant,
\* across all colors, whose size equals the input in type and value.
C13_StockBySize ==
  \A d \in Reads :
    d.stockBySize = SumOfSlots(d.variants.items, SlotsOfSize(d.variants.items, d.size))

\* C13 witness: a read of the size 8 on a product of two colors that both
\* stock it, one of them stocking the string "8" as well.
C13_Witness ==
  \E d \in Reads :
    /\ d.variants.present /\ d.size = Num(8)
    /\ Cardinality(SlotsOfSize(d.variants.items, Num(8))) = 2
    /\ \E p \in Slots(d.variants.items) :
         /\ d.variants.items[p[1]].sizes[p[2]].size = Str("8")
         /\ d.variants.items[p[1]].sizes[p[2]].stock > 0
    /\ d.stockBySize >= 2 /\ d.stockBySize < d.totalStock

\* C14: inStock of a product is true exactly when some SizeVariant of some
\* ColorVariant has stock > 0, false for empty or absent variants, and
\* hasStock of the controller gives the same answer.
C14_InStock ==
  \A d \in Reads :
    /\ d.inStock <=> \E p \in Slots(d.variants.items) : d.variants.items[p[1]].sizes[p[2]].stock > 0
    /\ (~d.variants.present \/ d.variants.items = <<>>) => ~d.inStock
    /\ d.hasStock = d.inStock

\* C14 witness: a read of a product whose only size in stock is the last
\* size of the last color.
C14_Witness ==
  \E d \in Reads :
    /\ d.variants.present /\ Len(d.variants.items) = 2 /\ d.inStock /\ d.hasStock
    /\ Len(d.variants.items[2].sizes) = 2
    /\ \A p \in Slots(d.variants.items) :
         d.variants.items[p[1]].sizes[p[2]].stock > 0 <=> p = <<2, 2>>

\* C15: every insufficient-stock failure of updateStock names the requested
\* color, the requested size (as text), the stock the slot had before the
\* delta (0 for a slot that did not exist) and the requested quantity.
C15_InsufficientStockContent ==
  \A i \in LastIdx :
    LET c == calls[i]
    IN FailedInsufficient(c) =>
         /\ c.err.color = c.color
         /\ c.err.size = FormatSize(c.size)
         /\ c.err.available = SlotStock(c.before, c.color, c.size)
         /\ c.err.requested = c.quantity
         /\ c.err.available + c.err.requested < 0

\* C15 witness: a refused consumption from a slot that holds stock.
C15_Witness ==
  \E i \in CallIdx :
    LET c == calls[i]
    IN /\ FailedInsufficient(c) /\ HasSlot(c.before, c.color, c.size)
       /\ c.err.available > 0 /\ c.err.requested = 0 - (c.err.available + 1)

\* The request whose handler is the single update has been answered.
SingleDone(r) == pc[r] = "done" /\ resp[r].handler = "updateStock"

\* C16: a single-update request that ends in an insufficient-stock error
\* is answered 400 and leaves the stored product exactly as it was; one
\* that succeeds changes the stored product by exactly its one delta: the
\* addressed slot holds its former stock (0 if new) plus the quantity and
\* totalStock moves by the quantity.
C16_SingleAllOrNothing ==
  \A r \in Reqs :
    (SingleDone(r) /\ Len(calls) = 1) =>
      LET c == calls[1]
      IN /\ FailedInsufficient(c) => resp[r].status = 400 /\ stored = c.storedBefore
         /\ Succeeded(c) =>
              /\ resp[r].status = 200
              /\ SlotStock(stored, c.color, c.size)
                   = SlotStock(c.storedBefore, c.color, c.size) + c.quantity
              /\ totalStock(stored) = totalStock(c.storedBefore) + c.quantity

\* C17: when two concurrent single updates of one existing slot have both
\* loaded the same pre-update document and each delta alone keeps the
\* stock non-negative, both pass the check and both are answered 200, and
\* the stored stock is the loaded stock plus the delta written last only.
C17_LostUpdate ==
  (Len(calls) = 2 /\ \A r \in Reqs : SingleDone(r)) =>
    LET a == calls[1]
        b == calls[2]
        n == SlotStock(a.before, a.color, a.size)
    IN (/\ a.before = b.before /\ a.color = b.color /\ a.size = b.size
        /\ HasSlot(a.before, a.color, a.size)
        /\ n + a.quantity >= 0 /\ n + b.quantity >= 0) =>
         /\ Succeeded(a) /\ Succeeded(b)
         /\ \A r \in Reqs : resp[r].status = 200
         /\ SlotStock(stored, a.color, a.size) =
              IF b.quantity = 0 THEN n + a.quantity ELSE n + b.quantity

\* C17 witness: two successful concurrent updates of one slot, each with
\* a non-zero delta, after which the stored stock misses one of them.
C17_Witness ==
  /\ Len(calls) = 2 /\ \A r \in Reqs : SingleDone(r) /\ resp[r].status = 200
  /\ calls[1].before = calls[2].before
  /\ calls[1].color = calls[2].color /\ calls[1].size = calls[2].size
  /\ calls[1].quantity # 0 /\ calls[2].quantity # 0
  /\ Succeeded(calls[1]) /\ Succeeded(calls[2])
  /\ SlotStock(stored, calls[1].color, calls[1].size)
       # SlotStock(calls[1].before, calls[1].color, calls[1].size)
           + calls[1].quantity + calls[2].quantity

\* No two entries of variants have the same color.
ColorsUnique(variants) ==
  \A i, j \in 1..Len(variants) : i # j => variants[i].color # variants[j].color

\* C18: in every stored product reachable by createProduct followed by
\* single and bulk stock updates run one at a time, no two ColorVariant
\* entries have the same color string.
C18_ColorUniqueness == ColorsUnique(stored)

\* The create request has been answered.
CreateDone(r) == pc[r] = "done" /\ resp[r].handler = "createProduct"
\* The conditions of C19 on the variants of a body as cast.
NonEmptyAndDistinct(variants) ==
  /\ Len(variants) >= 1
  /\ \A i \in 1..Len(variants) :
       /\ Len(variants[i].sizes) >= 1
       /\ \A j, k \in 1..Len(variants[i].sizes) :
            j # k => variants[i].sizes[j].size # variants[i].sizes[k].size

\* C19: createProduct stores a product only if its variants holds at
\* least one ColorVariant, every ColorVariant at least one SizeVariant,
\* and the sizes inside each color are pairwise distinct in type and
\* value; otherwise it answers 400 with a validation error and stores
\* nothing.
C19_CreationValidation ==
  \A r \in Reqs :
    CreateDone(r) =>
      /\ resp[r].status = 201 => stored = doc[r] /\ NonEmptyAndDistinct(stored)
      /\ resp[r].status # 201 =>
           resp[r].status = 400 /\ resp[r].errors = <<ValidationError>> /\ stored = <<>>
      /\ ~NonEmptyAndDistinct(doc[r]) => resp[r].status = 400

\* C19 witness: a create refused for two equal sizes in one color.
C19_Witness ==
  \E r \in Reqs :
    /\ CreateDone(r) /\ resp[r].status = 400 /\ stored = <<>>
    /\ \E i \in 1..Len(doc[r]) :
         /\ Len(doc[r][i].sizes) = 2
         /\ doc[r][i].sizes[1].size = doc[r][i].sizes[2].size

\* A create or a full update is answered in this step.
AnswersWrite(r) ==
  /\ pc[r] = "idle" /\ pc'[r] = "done"
  /\ resp'[r].handler \in {"createProduct", "updateProduct"}

\* C20: across createProduct, updateProduct replacing variants, single and
\* bulk stock updates, taken one at a time, no stored product ever holds a
\* SizeVariant with stock < 0, and a create or full update that carries a
\* negative stock is answered 400 and leaves storage unchanged.
C20_NoNegativeStockAtRest ==
  /\ [](StockNonNegative(stored))
  /\ [][\A r \in Reqs : (AnswersWrite(r) /\ ~StockNonNegative(doc'[r])) =>
          resp'[r].status = 400 /\ stored' = stored]_vars

\* C20 witness: after a stock update has consumed stock, a full update
\* carrying a negative stock has been refused.
C20_Witness ==
  \E r \in Reqs :
    /\ pc[r] = "done" /\ resp[r].handler = "updateProduct" /\ resp[r].status = 400
    /\ ~StockNonNegative(doc[r])
    /\ served >= 2 /\ stored # <<>> /\ ~inStock(stored)

\* Everything of `before` that the call to slot (color, size) must leave as
\* it was: every color with its name and images at its position, every size
\* entry at its position, and the stock of every slot but the addressed one.
FrameKept(before, after, color, size) ==
  /\ Len(after) >= Len(before)
  /\ \A i \in 1..Len(before) :
       /\ after[i].color = before[i].color
       /\ after[i].images = before[i].images
       /\ Len(after[i].sizes) >= Len(before[i].sizes)
       /\ \A j \in 1..Len(before[i].sizes) :
            /\ after[i].sizes[j].size = before[i].sizes[j].size
            /\ (before[i].color # color \/ before[i].sizes[j].size # size) =>
                 after[i].sizes[j].stock = before[i].sizes[j].stock
  /\ \A p \in Slots(after) :
       (p \notin Slots(before)) =>
         after[p[1]].color = color /\ after[p[1]].sizes[p[2]].size = size

\* C21: a successful updateStock(c, s, q) changes the stock of slot (c, s)
\* by exactly q and leaves everything else of the product as it was: the
\* stock of every other slot, the order of the colors and of the sizes of
\* each color, the images, and no entry is removed.
C21_Frame ==
  \A i \in LastIdx :
    LET c == calls[i]
    IN Succeeded(c) =>
         /\ SlotStock(c.after, c.color, c.size) = SlotStock(c.before, c.color, c.size) + c.quantity
         /\ SlotStock(c.storedAfter, c.color, c.size)
              = SlotStock(c.storedBefore, c.color, c.size) + c.quantity
         /\ FrameKept(c.before, c.after, c.color, c.size)
         /\ FrameKept(c.storedBefore, c.storedAfter, c.color, c.size)

\* C22: in updateBulkStock each triple has exactly the outcome a single
\* update would have on the product as the earlier successful triples of
\* the call left it (the stored product): the same success or failure and
\* the same stored product afterwards; a failed triple changes nothing for
\* the triples after it.
C22_BulkTriplesIndependent ==
  \A r \in Reqs :
    InBulk(r) =>
      \A i \in LastIdx :
        LET c == calls[i]
            alone == updateStock(c.storedBefore, c.color, c.size, c.quantity)
        IN /\ c.err.name = alone.err.name
           /\ c.storedAfter = IF alone.saved THEN alone.doc ELSE c.storedBefore

\* C23: under every interleaving of two concurrent single stock updates on
\* the product (each loads it, checks newStock >= 0 on its copy and writes
\* once), no slot of the stored product has a negative stock.
C23_RaceKeepsStockNonNegative ==
  /\ StockNonNegative(stored)
  /\ \A i \in CallIdx :
       StockNonNegative(calls[i].storedBefore) /\ StockNonNegative(calls[i].storedAfter)

\* C23 witness: both requests loaded a slot with stock 1, both took one
\* unit and both were answered 200; the stored stock is 0.
C23_Witness ==
  /\ Len(calls) = 2
  /\ \A r \in Reqs : SingleDone(r) /\ resp[r].status = 200
  /\ calls[1].color = calls[2].color /\ calls[1].size = calls[2].size
  /\ calls[1].quantity = 0 - 1 /\ calls[2].quantity = 0 - 1
  /\ SlotStock(calls[1].before, calls[1].color, calls[1].size) = 1
  /\ SlotStock(calls[2].before, calls[2].color, calls[2].size) = 1
  /\ SlotStock(stored, calls[1].color, calls[1].size) = 0

\* Every color holds at least one size, and no two sizes of a color are
\* equal by type and value.
SizesUniqueAndPresent(variants) ==
  \A i \in 1..Len(variants) :
    /\ Len(variants[i].sizes) >= 1
    /\ \A j, k \in 1..Len(variants[i].sizes) :
         StrictEq(variants[i].sizes[j].size, variants[i].sizes[k].size) => j = k

\* C24: starting from a product whose sizes are unique within each color,
\* after any sequence of updateStock calls, successful or failed, every
\* ColorVariant of the product (the object the method ran on, and the
\* stored product) holds at least one SizeVariant and no two SizeVariants
\* of one color have the same size by type and value.
C24_SizeUniqueness ==
  /\ SizesUniqueAndPresent(stored)
  /\ \A r \in Reqs : pc[r] = "caller" => SizesUniqueAndPresent(doc[r])

\* The slot (color, size) is addressed by an entry of the success list.
InUpdates(r, color, size) ==
  \E k \in 1..Len(updates[r]) : updates[r][k].color = color /\ updates[r][k].size = size

\* C25: in updateBulkStock a triple reported as a failure contributes
\* nothing to the stored product, also when a later triple of the call is
\* saved: every color entry, size entry and stock of the stored product
\* that the product did not have when the call began belongs to a slot
\* that a triple of the success list addresses.
C25_FailedTripleLeavesNoTrace ==
  \A r \in Reqs :
    (InBulk(r) /\ calls # <<>>) =>
      LET start == calls[1].storedBefore
      IN /\ \A i \in 1..Len(stored) :
              (i > Len(start) \/ Len(stored[i].sizes) = 0) =>
                \E j \in 1..Len(stored[i].sizes) : InUpdates(r, stored[i].color, stored[i].sizes[j].size)
         /\ \A p \in Slots(stored) :
              LET color == stored[p[1]].color
                  size == stored[p[1]].sizes[p[2]].size
              IN (~HasSlot(start, color, size)
                    \/ SlotStock(start, color, size) # stored[p[1]].sizes[p[2]].stock) =>
                   InUpdates(r, color, size)

\* C26: with no other request running, the product returned by a single or
\* bulk stock update answered 200 (a bulk answer that lists failures
\* included) has the variants, colors, sizes and stocks of the product
\* stored when the response is sent.
C26_ResponseMatchesStored ==
  \A r \in Reqs :
    ((SingleDone(r) \/ BulkDone(r)) /\ resp[r].status = 200) => resp[r].data = stored

\* C27: updateBulkStock never answers 200 for a call whose success list is
\* empty (an empty variants array and color groups with an empty sizes
\* array included): such a call is rejected.
C27_NoSuccessWithoutUpdate ==
  \A r \in Reqs :
    (BulkDone(r) /\ Len(updates[r]) = 0) => resp[r].status # 200

RECURSIVE SumQuantities(_)
\* Sum of the quantities of the entries of a success list.
SumQuantities(ups) ==
  IF ups = <<>> THEN 0 ELSE Head(ups).quantity + SumQuantities(Tail(ups))

\* C28: for an updateBulkStock call with no concurrent request, totalStock
\* of the stored product after the call minus totalStock before it is the
\* sum of the quantities of the triples reported as successes.
C28_BulkTotalStock ==
  \A r \in Reqs :
    (BulkDone(r) /\ calls # <<>>) =>
      totalStock(stored) - totalStock(calls[1].storedBefore) = SumQuantities(updates[r])

\* C29: in every state of a product reached by createProduct followed by
\* single and bulk stock updates, of the stored product as of the product
\* object a stock update holds, inStock is true exactly when totalStock > 0.
C29_InStockIffTotalPositive ==
  /\ virtualInStock(PresentVariants(stored)) <=> virtualTotalStock(PresentVariants(stored)) > 0
  /\ \A r \in Reqs :
       (pc[r] \in {"single", "bulk", "group"} \/ SingleDone(r) \/ BulkDone(r)) =>
         (virtualInStock(PresentVariants(doc[r])) <=> virtualTotalStock(PresentVariants(doc[r])) > 0)

\* C29 witness: a stock update has taken the last unit of a created
\* product: it is stored with colors and sizes, totalStock 0, not in stock.
C29_Witness ==
  /\ Slots(stored) # {}
  /\ \E i \in CallIdx : Succeeded(calls[i]) /\ calls[i].quantity < 0 /\ calls[i].storedAfter = stored
  /\ virtualTotalStock(PresentVariants(stored)) = 0
  /\ ~virtualInStock(PresentVariants(stored))

\* Number of ColorVariant entries of `variants` whose color is `color`.
ColorCount(variants, color) ==
  Cardinality({i \in 1..Len(variants) : variants[i].color = color})

\* Both concurrent single updates have been answered.
BothDone == Len(calls) = 2 /\ \A r \in Reqs : SingleDone(r)

\* C30: when two concurrent stock updates on the product address different
\* slots and both are answered with success, the stored product afterwards
\* reflects both deltas, under every interleaving; and when both add stock
\* to the same missing color, the stored product afterwards holds exactly
\* one ColorVariant of that color.
C30_ConcurrentUpdatesBothApply ==
  BothDone =>
    LET a == calls[1]
        b == calls[2]
        start == a.storedBefore
    IN /\ ((\A r \in Reqs : resp[r].status = 200) /\ (a.color # b.color \/ a.size # b.size)) =>
            /\ SlotStock(stored, a.color, a.size) = SlotStock(start, a.color, a.size) + a.quantity
            /\ SlotStock(stored, b.color, b.size) = SlotStock(start, b.color, b.size) + b.quantity
       /\ (a.color = b.color /\ FindColor(start, a.color) = 0
             /\ a.quantity >= 0 /\ b.quantity >= 0 /\ ValidSize(a.size) /\ ValidSize(b.size)) =>
            ColorCount(stored, a.color) = 1

====
